---- MODULE Spec2Model ----
(***************************************************************************)
(* Worker side of the MapReduce lab (src/mr/worker.go): the task loop,    *)
(* the map executor with its fan-out of per-partition commits, the reduce *)
(* executor, and the two coordinator calls.  The coordinator, the user    *)
(* callbacks and the filesystem are the environment.                      *)
(***************************************************************************)
EXTENDS Integers, Sequences, FiniteSets, TLC

VARIABLES
    active,     \* the worker processes that were started
    job,        \* the coordinator's job: map tasks, partitions, and what it
                \* hands to one worker (tasks, heartbeats answered)
    files,      \* the filesystem: path -> sequence of lines (absent: not in DOMAIN)
    pc,         \* per worker: position in Worker / doMapTask / doReduceTask
    response,   \* per worker: the HeartbeatResponse of the current iteration
    kva,        \* per worker: kva of doMapTask / doReduceTask
    units,      \* per worker: the atomicWriteFile calls in flight, by index
    ri,         \* per worker: loop index i of doReduceTask
    results,    \* per worker: results map of doReduceTask (key -> values)
    todo,       \* per worker: keys of results not yet ranged over
    buf,        \* per worker: buf of doReduceTask
    sent,       \* history: per worker, the requests that reached the coordinator
    hist,       \* history: per worker, the JobTypes its heartbeats returned
    sleeps,     \* history: per worker, number of time.Sleep calls
    events,     \* history: per worker, what happened in the current iteration
    rpcErr      \* history: per worker, TRUE once a dial or call error happened

vars == <<active, job, files, pc, response, kva, units, ri, results, todo, buf,
          sent, hist, sleeps, events, rpcErr>>

----------------------------------------------------------------------------
(* Bounds of the model *)

MaxNMap == 2        \* map tasks of the job
MaxNReduce == 2     \* reduce partitions of the job
MaxKva == 2         \* Records one map callback emits
MaxBeats == 3       \* heartbeats one worker sends
MaxTasks == 2       \* tasks the coordinator hands to one worker
ScenarioTasks == 1  \* the same, in the scenarios other than Init
ScenarioBeats == 1  \* heartbeats of one worker in InitLate and InitTwo
LiveBeats == 2      \* heartbeats of one worker in InitLive

AllWorkers == {1, 2}
\* the Records a map callback may emit: two keys, one of them with two values
Records ==
    {[Key |-> "a", Value |-> "1"], [Key |-> "a", Value |-> "2"],
     [Key |-> "b", Value |-> "1"]}

RECURSIVE SeqsUpTo(_, _)
SeqsUpTo(S, n) ==
    IF n = 0 THEN {<<>>}
    ELSE LET shorter == SeqsUpTo(S, n - 1)
         IN  shorter \cup {Append(s, x) : s \in {t \in shorter : Len(t) = n - 1}, x \in S}

\* what a map callback may return
MapOutputs == SeqsUpTo(Records, MaxKva)

----------------------------------------------------------------------------
(* iHash: FNV-1a over the key's bytes, 32 bits, sign bit masked off.  The  *)
(* 32-bit state is kept as two 16-bit halves so no product leaves 31 bits. *)

KeyBytes(key) ==
    CASE key = "a" -> <<97>>
      [] key = "b" -> <<98>>
      [] key = "c" -> <<99>>
      [] OTHER     -> <<>>

RECURSIVE Xor(_, _, _)
Xor(x, y, bits) ==
    IF bits = 0 THEN 0
    ELSE ((x + y) % 2) + 2 * Xor(x \div 2, y \div 2, bits - 1)

FnvStep(h, b) ==
    LET lo  == (h.lo - (h.lo % 256)) + Xor(h.lo % 256, b, 8)
        hi  == h.hi
        plo == lo * 403
    IN  [lo |-> plo % 65536,
         hi |-> (hi * 403 + (plo \div 65536) + (lo % 256) * 256) % 65536]

RECURSIVE FnvFold(_, _)
FnvFold(h, bytes) ==
    IF bytes = <<>> THEN h ELSE FnvFold(FnvStep(h, Head(bytes)), Tail(bytes))

\* the 32 bits of h.Sum32() read as a signed int, without the mask
iHashNoMask(key) ==
    LET h == FnvFold([hi |-> 33052, lo |-> 40389], KeyBytes(key))
    IN  IF h.hi >= 32768 THEN (h.hi - 65536) * 65536 + h.lo
        ELSE h.hi * 65536 + h.lo

\* offset basis 2166136261 = 0x811C9DC5, prime 16777619 = 2^24 + 403
iHash(key) ==
    LET h == FnvFold([hi |-> 33052, lo |-> 40389], KeyBytes(key))
    IN  (h.hi % 32768) * 65536 + h.lo

\* Go's % on int: the remainder has the sign of the dividend
GoRem(x, n) == IF x >= 0 THEN x % n ELSE 0 - ((0 - x) % n)

----------------------------------------------------------------------------
(* File names and the on-disk encodings *)

generateMapResultFileName(i, index) == "mr-" \o ToString(i) \o "-" \o ToString(index)

generateReduceResultFileName(id) == "mr-out-" \o ToString(id)

\* the freshly created temporary file of one atomicWriteFile call
TempName(w, target) == target \o ".tmp" \o ToString(w)

\* the input file the coordinator names for map task id
InputFile(id) == "in-" \o ToString(id)

\* enc.Encode(&kv): one JSON object per line
EncodeKV(kv) == <<"{", "Key", kv.Key, "Value", kv.Value, "}">>

IsKVLine(line) ==
    /\ Len(line) = 6
    /\ line[1] = "{" /\ line[2] = "Key" /\ line[4] = "Value" /\ line[6] = "}"

\* dec.Decode(&kv) on one line that IsKVLine
DecodeKV(line) == [Key |-> line[3], Value |-> line[5]]

\* the Decode loop of doReduceTask: Records up to the first error or the end
RECURSIVE DecodeAll(_)
DecodeAll(lines) ==
    IF lines = <<>> \/ ~IsKVLine(Head(lines)) THEN <<>>
    ELSE <<DecodeKV(Head(lines))>> \o DecodeAll(Tail(lines))

\* fmt.Fprintf(&buf, "%v %v\n", key, output)
OutputLine(key, output) == <<key, " ", output>>

\* the user's reduce callback: the count of the values
reduceF(key, values) == ToString(Len(values))

----------------------------------------------------------------------------
(* Pure parts of doMapTask and doReduceTask *)

\* the routing loop assigning to the bucket where it should append
IntermediatesOverwrite(emitted, n) ==
    [index \in 0..(n - 1) |->
        LET mine == SelectSeq(emitted, LAMBDA kv : GoRem(iHash(kv.Key), n) = index)
        IN  IF mine = <<>> THEN <<>> ELSE <<mine[Len(mine)]>>]

\* intermediates[index] after the routing loop
Intermediates(emitted, n) ==
    [index \in 0..(n - 1) |->
        SelectSeq(emitted, LAMBDA kv : GoRem(iHash(kv.Key), n) = index)]

\* buf of one commit unit after its Encode loop
EncodeBucket(intermediate) ==
    [j \in 1..Len(intermediate) |-> EncodeKV(intermediate[j])]

\* results after the grouping loop
Group(records) ==
    [key \in {records[j].Key : j \in 1..Len(records)} |->
        LET mine == SelectSeq(records, LAMBDA kv : kv.Key = key)
        IN  [j \in 1..Len(mine) |-> mine[j].Value]]

----------------------------------------------------------------------------
(* State *)

Parts == 0..(MaxNReduce - 1)

JobTypes == {"MapJob", "ReduceJob", "WaitJob", "CompleteJob"}

\* HeartbeatResponse{}: every field at its zero value
ZeroResponse(jobType) ==
    [JobType |-> jobType, Id |-> 0, FilePath |-> "", NReduce |-> 0, NMap |-> 0]

\* the tasks among the answers a worker got so far
Tasks(answers) == SelectSeq(answers, LAMBDA jt : jt \in {"MapJob", "ReduceJob"})

\* what the coordinator of the job may answer to a heartbeat
TaskResponses ==
    {[JobType |-> "MapJob", Id |-> id, FilePath |-> InputFile(id),
      NReduce |-> job.NReduce, NMap |-> job.NMap] : id \in 0..(job.NMap - 1)}
    \cup
    {[JobType |-> "ReduceJob", Id |-> id, FilePath |-> "",
      NReduce |-> job.NReduce, NMap |-> job.NMap] : id \in 0..(job.NReduce - 1)}

IdleResponses == {ZeroResponse(jt) : jt \in {"WaitJob", "CompleteJob", "OtherJob"}}

Responses(answers) ==
    IF Len(Tasks(answers)) < job.tasks
    THEN TaskResponses \cup IdleResponses
    ELSE IdleResponses

NoUnit == [st |-> "none", target |-> "", payload |-> <<>>]

NoUnits == [u \in Parts |-> NoUnit]

\* the state when the workers start, but for the job and the filesystem
Started(workers) ==
    /\ active = workers
    /\ pc = [w \in AllWorkers |-> "poll"]
    /\ response = [w \in AllWorkers |-> ZeroResponse("WaitJob")]
    /\ kva = [w \in AllWorkers |-> <<>>]
    /\ units = [w \in AllWorkers |-> NoUnits]
    /\ ri = [w \in AllWorkers |-> 0]
    /\ results = [w \in AllWorkers |-> <<>>]
    /\ todo = [w \in AllWorkers |-> {}]
    /\ buf = [w \in AllWorkers |-> <<>>]
    /\ sent = [w \in AllWorkers |-> <<>>]
    /\ hist = [w \in AllWorkers |-> <<>>]
    /\ sleeps = [w \in AllWorkers |-> 0]
    /\ events = [w \in AllWorkers |-> {}]
    /\ rpcErr = [w \in AllWorkers |-> FALSE]

\* one worker, started on an empty directory
Init ==
    /\ Started({1})
    /\ job \in [NMap : 1..MaxNMap, NReduce : 1..MaxNReduce,
                tasks : {MaxTasks}, beats : {MaxBeats}]
    /\ files = <<>>

\* the filesystem after path is created or replaced with content
WriteFile(fs, path, content) ==
    [q \in DOMAIN fs \cup {path} |-> IF q = path THEN content ELSE fs[q]]

RemoveFile(fs, path) == [q \in DOMAIN fs \ {path} |-> fs[q]]

\* rename(2): one step puts from's content under to
RenameFile(fs, from, to) ==
    [q \in (DOMAIN fs \ {from}) \cup {to} |-> IF q = to THEN fs[from] ELSE fs[q]]

----------------------------------------------------------------------------
(* call, doHeartbeat, doReport *)

\* rpc.DialHTTP fails: log.Fatal
HeartbeatDialError(w) ==
    /\ pc[w] = "poll" /\ Len(hist[w]) < job.beats
    /\ pc' = [pc EXCEPT ![w] = "dead"]
    /\ rpcErr' = [rpcErr EXCEPT ![w] = TRUE]
    /\ events' = [events EXCEPT ![w] = {}]
    /\ UNCHANGED <<active, job, files, response, kva, units, ri, results, todo,
                   buf, sent, hist, sleeps>>

\* c.Call fails: call prints the error and returns false, doHeartbeat returns
\* the response it constructed.  The declaration of the JobType constants is
\* not part of worker.go, so the zero JobType is any of them.
HeartbeatCallError(w) ==
    /\ pc[w] = "poll" /\ Len(hist[w]) < job.beats
    /\ \E jt \in JobTypes \cup {"OtherJob"} :
          response' = [response EXCEPT ![w] = ZeroResponse(jt)]
    /\ pc' = [pc EXCEPT ![w] = "switch"]
    /\ rpcErr' = [rpcErr EXCEPT ![w] = TRUE]
    /\ sent' = [sent EXCEPT ![w] = Append(@, <<"Heartbeat">>)]
    /\ hist' = [hist EXCEPT ![w] = Append(@, "CallError")]
    /\ events' = [events EXCEPT ![w] = {}]
    /\ UNCHANGED <<active, job, files, kva, units, ri, results, todo, buf, sleeps>>

HeartbeatOk(w) ==
    /\ pc[w] = "poll" /\ Len(hist[w]) < job.beats
    /\ \E r \in Responses(hist[w]) :
          /\ response' = [response EXCEPT ![w] = r]
          /\ hist' = [hist EXCEPT ![w] = Append(@, r.JobType)]
    /\ pc' = [pc EXCEPT ![w] = "switch"]
    /\ sent' = [sent EXCEPT ![w] = Append(@, <<"Heartbeat">>)]
    /\ events' = [events EXCEPT ![w] = {}]
    /\ UNCHANGED <<active, job, files, kva, units, ri, results, todo, buf, sleeps,
                   rpcErr>>

\* doReduceTask reporting with the phase of doMapTask
PhaseOfMapOnly(jobType) == "MapPhase"

\* SchedulePhase of the report doMapTask / doReduceTask sends
PhaseOf(jobType) == IF jobType = "MapJob" THEN "MapPhase" ELSE "ReducePhase"

\* the executor returns to the loop: its locals and the response are dropped
Return(w) ==
    /\ response' = [response EXCEPT ![w] = ZeroResponse("WaitJob")]
    /\ kva' = [kva EXCEPT ![w] = <<>>]
    /\ units' = [units EXCEPT ![w] = NoUnits]
    /\ ri' = [ri EXCEPT ![w] = 0]
    /\ results' = [results EXCEPT ![w] = <<>>]
    /\ todo' = [todo EXCEPT ![w] = {}]
    /\ buf' = [buf EXCEPT ![w] = <<>>]

ReportDialError(w) ==
    /\ pc[w] = "report"
    /\ pc' = [pc EXCEPT ![w] = "dead"]
    /\ rpcErr' = [rpcErr EXCEPT ![w] = TRUE]
    /\ UNCHANGED <<active, job, files, response, kva, units, ri, results, todo,
                   buf, sent, hist, sleeps, events>>

\* c.Call fails: doReport drops call's result, the executor returns to the loop
ReportCallError(w) ==
    /\ pc[w] = "report"
    /\ sent' = [sent EXCEPT ![w] =
                  Append(@, <<"Report", response[w].Id, PhaseOf(response[w].JobType)>>)]
    /\ pc' = [pc EXCEPT ![w] = "poll"]
    /\ rpcErr' = [rpcErr EXCEPT ![w] = TRUE]
    /\ Return(w)
    /\ UNCHANGED <<active, job, files, hist, sleeps, events>>

ReportOk(w) ==
    /\ pc[w] = "report"
    /\ sent' = [sent EXCEPT ![w] =
                  Append(@, <<"Report", response[w].Id, PhaseOf(response[w].JobType)>>)]
    /\ pc' = [pc EXCEPT ![w] = "poll"]
    /\ Return(w)
    /\ UNCHANGED <<active, job, files, hist, sleeps, events, rpcErr>>

----------------------------------------------------------------------------
(* Worker: the switch on response.JobType *)

SwitchMap(w) ==
    /\ pc[w] = "switch" /\ response[w].JobType = "MapJob"
    /\ pc' = [pc EXCEPT ![w] = "map_open"]
    /\ UNCHANGED <<active, job, files, response, kva, units, ri, results, todo,
                   buf, sent, hist, sleeps, events, rpcErr>>

SwitchReduce(w) ==
    /\ pc[w] = "switch" /\ response[w].JobType = "ReduceJob"
    /\ pc' = [pc EXCEPT ![w] = "red_read"]
    /\ UNCHANGED <<active, job, files, response, kva, units, ri, results, todo,
                   buf, sent, hist, sleeps, events, rpcErr>>

\* the Wait case going back to the heartbeat without sleeping
SwitchWaitNoSleep(w) ==
    /\ pc[w] = "switch" /\ response[w].JobType = "WaitJob"
    /\ pc' = [pc EXCEPT ![w] = "poll"]
    /\ UNCHANGED <<active, job, files, response, kva, units, ri, results, todo,
                   buf, sent, hist, sleeps, events, rpcErr>>

\* time.Sleep(1 * time.Second), then the next iteration
SwitchWait(w) ==
    /\ pc[w] = "switch" /\ response[w].JobType = "WaitJob"
    /\ sleeps' = [sleeps EXCEPT ![w] = @ + 1]
    /\ pc' = [pc EXCEPT ![w] = "poll"]
    /\ UNCHANGED <<active, job, files, response, kva, units, ri, results, todo,
                   buf, sent, hist, events, rpcErr>>

\* the CompleteJob case leaving only the switch, not the loop
SwitchCompleteBreak(w) ==
    /\ pc[w] = "switch" /\ response[w].JobType = "CompleteJob"
    /\ pc' = [pc EXCEPT ![w] = "poll"]
    /\ UNCHANGED <<active, job, files, response, kva, units, ri, results, todo,
                   buf, sent, hist, sleeps, events, rpcErr>>

\* return
SwitchComplete(w) ==
    /\ pc[w] = "switch" /\ response[w].JobType = "CompleteJob"
    /\ pc' = [pc EXCEPT ![w] = "exited"]
    /\ UNCHANGED <<active, job, files, response, kva, units, ri, results, todo,
                   buf, sent, hist, sleeps, events, rpcErr>>

\* the default case only logging the unexpected jobType
SwitchDefaultLogged(w) ==
    /\ pc[w] = "switch" /\ response[w].JobType \notin JobTypes
    /\ pc' = [pc EXCEPT ![w] = "poll"]
    /\ UNCHANGED <<active, job, files, response, kva, units, ri, results, todo,
                   buf, sent, hist, sleeps, events, rpcErr>>

\* panic
SwitchDefault(w) ==
    /\ pc[w] = "switch" /\ response[w].JobType \notin JobTypes
    /\ pc' = [pc EXCEPT ![w] = "dead"]
    /\ UNCHANGED <<active, job, files, response, kva, units, ri, results, todo,
                   buf, sent, hist, sleeps, events, rpcErr>>

----------------------------------------------------------------------------
(* doMapTask *)

\* os.Open fails and doMapTask only returns
MapOpenErrorReturn(w) ==
    /\ pc[w] = "map_open"
    /\ pc' = [pc EXCEPT ![w] = "poll"]
    /\ events' = [events EXCEPT ![w] = @ \cup {"input_error"}]
    /\ UNCHANGED <<active, job, files, response, kva, units, ri, results, todo,
                   buf, sent, hist, sleeps, rpcErr>>

\* os.Open fails: log.Fatalf.  The empty path of a zero response never opens.
MapOpenError(w) ==
    /\ pc[w] = "map_open"
    /\ pc' = [pc EXCEPT ![w] = "dead"]
    /\ events' = [events EXCEPT ![w] = @ \cup {"input_error"}]
    /\ UNCHANGED <<active, job, files, response, kva, units, ri, results, todo,
                   buf, sent, hist, sleeps, rpcErr>>

\* ioutil.ReadAll fails: log.Fatalf
MapReadError(w) ==
    /\ pc[w] = "map_open" /\ response[w].FilePath # ""
    /\ pc' = [pc EXCEPT ![w] = "dead"]
    /\ events' = [events EXCEPT ![w] = @ \cup {"input_error"}]
    /\ UNCHANGED <<active, job, files, response, kva, units, ri, results, todo,
                   buf, sent, hist, sleeps, rpcErr>>

\* the goroutines reading the loop variable instead of their argument: each
\* sees the last index
MapUnitsSharedIndex(id, emitted, n) ==
    [u \in Parts |->
        IF u < n
        THEN [st |-> "run",
              target |-> generateMapResultFileName(id, n - 1),
              payload |-> EncodeBucket(Intermediates(emitted, n)[u])]
        ELSE NoUnit]

\* the commit units doMapTask starts: one per index of intermediates, each with
\* its target path and its encoded bucket
MapUnits(id, emitted, n) ==
    [u \in Parts |->
        IF u < n
        THEN [st |-> "run",
              target |-> generateMapResultFileName(id, u),
              payload |-> EncodeBucket(Intermediates(emitted, n)[u])]
        ELSE NoUnit]

\* the input is read, mapF returns kva, the Records are routed and the
\* goroutines are started (a response of the coordinator has NReduce >= 1)
MapCall(w) ==
    /\ pc[w] = "map_open" /\ response[w].FilePath # ""
    /\ \E emitted \in MapOutputs :
          /\ kva' = [kva EXCEPT ![w] = emitted]
          /\ units' = [units EXCEPT ![w] =
                         MapUnits(response[w].Id, emitted, response[w].NReduce)]
    /\ events' = [events EXCEPT ![w] = @ \cup {"mapF"}]
    /\ pc' = [pc EXCEPT ![w] = "map_wait"]
    /\ UNCHANGED <<active, job, files, response, ri, results, todo, buf, sent,
                   hist, sleeps, rpcErr>>

\* wg.Done() called only behind a successful atomicWriteFile, not deferred
FinishedOnlyDone(unit) == unit.st \in {"none", "done"}

\* the goroutine of the unit has run its deferred wg.Done(), or never existed
Finished(unit) == unit.st \in {"none", "done", "failed"}

\* wg.Wait() returns once every goroutine has called wg.Done()
MapJoin(w) ==
    /\ pc[w] = "map_wait"
    /\ \A u \in Parts : Finished(units[w][u])
    /\ pc' = [pc EXCEPT ![w] = "report"]
    /\ UNCHANGED <<active, job, files, response, kva, units, ri, results, todo,
                   buf, sent, hist, sleeps, events, rpcErr>>

----------------------------------------------------------------------------
(* atomicWriteFile: temporary file in the same directory, then rename *)

UnitVars(w, u, st) ==
    /\ units' = [units EXCEPT ![w][u].st = st]
    /\ UNCHANGED <<active, job, pc, response, kva, ri, results, todo, buf, sent,
                   hist, sleeps, rpcErr>>

CreateTemp(w, u) ==
    /\ units[w][u].st = "run"
    /\ files' = WriteFile(files, TempName(w, units[w][u].target), <<>>)
    /\ UNCHANGED events
    /\ UnitVars(w, u, "copy")

\* the temporary file cannot be created: the error is returned
CreateTempError(w, u) ==
    /\ units[w][u].st = "run"
    /\ events' = [events EXCEPT ![w] = @ \cup {"write_error"}]
    /\ UNCHANGED files
    /\ UnitVars(w, u, "failed")

\* one more line of the payload reaches the temporary file
CopyLine(w, u) ==
    LET tmp == TempName(w, units[w][u].target)
    IN  /\ units[w][u].st = "copy"
        /\ Len(files[tmp]) < Len(units[w][u].payload)
        /\ files' = WriteFile(files, tmp,
                       Append(files[tmp], units[w][u].payload[Len(files[tmp]) + 1]))
        /\ UNCHANGED events
        /\ UnitVars(w, u, "copy")

\* the write fails: the temporary file is removed, the error is returned
CopyError(w, u) ==
    LET tmp == TempName(w, units[w][u].target)
    IN  /\ units[w][u].st = "copy"
        /\ Len(files[tmp]) < Len(units[w][u].payload)
        /\ files' = RemoveFile(files, tmp)
        /\ events' = [events EXCEPT ![w] = @ \cup {"write_error"}]
        /\ UnitVars(w, u, "failed")

\* publishing by copying the temporary file behind what the target holds
PublishAppend(w, u) ==
    LET tmp == TempName(w, units[w][u].target)
        target == units[w][u].target
    IN  /\ units[w][u].st = "copy"
        /\ Len(files[tmp]) = Len(units[w][u].payload)
        /\ files' = RemoveFile(WriteFile(files, target,
                                (IF target \in DOMAIN files THEN files[target] ELSE <<>>)
                                    \o files[tmp]), tmp)
        /\ UNCHANGED events
        /\ UnitVars(w, u, "done")

\* the publish step: os.Rename of the temporary file onto the target
Publish(w, u) ==
    LET tmp == TempName(w, units[w][u].target)
    IN  /\ units[w][u].st = "copy"
        /\ Len(files[tmp]) = Len(units[w][u].payload)
        /\ files' = RenameFile(files, tmp, units[w][u].target)
        /\ UNCHANGED events
        /\ UnitVars(w, u, "done")

\* the rename fails: the temporary file is removed, the error is returned
PublishError(w, u) ==
    LET tmp == TempName(w, units[w][u].target)
    IN  /\ units[w][u].st = "copy"
        /\ Len(files[tmp]) = Len(units[w][u].payload)
        /\ files' = RemoveFile(files, tmp)
        /\ events' = [events EXCEPT ![w] = @ \cup {"write_error"}]
        /\ UnitVars(w, u, "failed")

----------------------------------------------------------------------------
(* doReduceTask *)

ReducePath(w) == generateMapResultFileName(ri[w], response[w].Id)

Reading(w) == pc[w] = "red_read" /\ ri[w] < response[w].NMap

ReduceVars(w) ==
    UNCHANGED <<active, job, files, response, units, sent, hist, sleeps, rpcErr>>

\* os.Open fails because the file does not exist: log.Fatalf
ReduceOpenMissing(w) ==
    /\ Reading(w) /\ ReducePath(w) \notin DOMAIN files
    /\ pc' = [pc EXCEPT ![w] = "dead"]
    /\ events' = [events EXCEPT ![w] = @ \cup {"missing"}]
    /\ UNCHANGED <<kva, ri, results, todo, buf>>
    /\ ReduceVars(w)

\* os.Open fails for another reason: log.Fatalf
ReduceOpenError(w) ==
    /\ Reading(w) /\ ReducePath(w) \in DOMAIN files
    /\ pc' = [pc EXCEPT ![w] = "dead"]
    /\ events' = [events EXCEPT ![w] = @ \cup {"open_error"}]
    /\ UNCHANGED <<kva, ri, results, todo, buf>>
    /\ ReduceVars(w)

\* every Record of the file is decoded; Decode then returns io.EOF: break
ReduceReadAll(w) ==
    /\ Reading(w) /\ ReducePath(w) \in DOMAIN files
    /\ kva' = [kva EXCEPT ![w] = @ \o DecodeAll(files[ReducePath(w)])]
    /\ ri' = [ri EXCEPT ![w] = @ + 1]
    /\ UNCHANGED <<pc, results, todo, buf, events>>
    /\ ReduceVars(w)

\* Decode returns a read error after n Records: break, like io.EOF
ReduceReadError(w) ==
    /\ Reading(w) /\ ReducePath(w) \in DOMAIN files
    /\ \E n \in 0..(Len(files[ReducePath(w)]) - 1) :
          kva' = [kva EXCEPT ![w] =
                    @ \o DecodeAll(SubSeq(files[ReducePath(w)], 1, n))]
    /\ ri' = [ri EXCEPT ![w] = @ + 1]
    /\ events' = [events EXCEPT ![w] = @ \cup {"read_error"}]
    /\ UNCHANGED <<pc, results, todo, buf>>
    /\ ReduceVars(w)

\* the grouping loop
ReduceGroup(w) ==
    /\ pc[w] = "red_read" /\ ri[w] >= response[w].NMap
    /\ results' = [results EXCEPT ![w] = Group(kva[w])]
    /\ todo' = [todo EXCEPT ![w] = DOMAIN Group(kva[w])]
    /\ pc' = [pc EXCEPT ![w] = "red_range"]
    /\ UNCHANGED <<kva, ri, buf, events>>
    /\ ReduceVars(w)

\* one iteration of the range over results, in the order the Go map yields
ReduceCall(w) ==
    /\ pc[w] = "red_range"
    /\ \E key \in todo[w] :
          /\ buf' = [buf EXCEPT ![w] =
                       Append(@, OutputLine(key, reduceF(key, results[w][key])))]
          /\ todo' = [todo EXCEPT ![w] = @ \ {key}]
    /\ UNCHANGED <<pc, kva, ri, results, events>>
    /\ ReduceVars(w)

\* the Output File is created in place before the payload is written
ReduceCommitInPlace(w) ==
    /\ pc[w] = "red_range" /\ todo[w] = {}
    /\ files' = WriteFile(files, generateReduceResultFileName(response[w].Id), <<>>)
    /\ units' = [units EXCEPT ![w][0] =
                   [st |-> "run",
                    target |-> generateReduceResultFileName(response[w].Id),
                    payload |-> buf[w]]]
    /\ pc' = [pc EXCEPT ![w] = "red_write"]
    /\ UNCHANGED <<active, job, response, kva, ri, results, todo, buf, sent, hist,
                   sleeps, events, rpcErr>>

\* atomicWriteFile(generateReduceResultFileName(response.Id), &buf) is called
ReduceCommit(w) ==
    /\ pc[w] = "red_range" /\ todo[w] = {}
    /\ units' = [units EXCEPT ![w][0] =
                   [st |-> "run",
                    target |-> generateReduceResultFileName(response[w].Id),
                    payload |-> buf[w]]]
    /\ pc' = [pc EXCEPT ![w] = "red_write"]
    /\ UNCHANGED <<active, job, files, response, kva, ri, results, todo, buf,
                   sent, hist, sleeps, events, rpcErr>>

\* atomicWriteFile returns; its result is dropped
ReduceJoin(w) ==
    /\ pc[w] = "red_write" /\ Finished(units[w][0])
    /\ pc' = [pc EXCEPT ![w] = "report"]
    /\ UNCHANGED <<active, job, files, response, kva, units, ri, results, todo,
                   buf, sent, hist, sleeps, events, rpcErr>>

----------------------------------------------------------------------------

Next ==
    \/ \E w \in active : HeartbeatDialError(w)
    \/ \E w \in active : HeartbeatCallError(w)
    \/ \E w \in active : HeartbeatOk(w)
    \/ \E w \in active : ReportDialError(w)
    \/ \E w \in active : ReportCallError(w)
    \/ \E w \in active : ReportOk(w)
    \/ \E w \in active : SwitchMap(w)
    \/ \E w \in active : SwitchReduce(w)
    \/ \E w \in active : SwitchWait(w)
    \/ \E w \in active : SwitchComplete(w)
    \/ \E w \in active : SwitchDefault(w)
    \/ \E w \in active : MapOpenError(w)
    \/ \E w \in active : MapReadError(w)
    \/ \E w \in active : MapCall(w)
    \/ \E w \in active : MapJoin(w)
    \/ \E w \in active, u \in Parts : CreateTemp(w, u)
    \/ \E w \in active, u \in Parts : CreateTempError(w, u)
    \/ \E w \in active, u \in Parts : CopyLine(w, u)
    \/ \E w \in active, u \in Parts : CopyError(w, u)
    \/ \E w \in active, u \in Parts : Publish(w, u)
    \/ \E w \in active, u \in Parts : PublishError(w, u)
    \/ \E w \in active : ReduceOpenMissing(w)
    \/ \E w \in active : ReduceOpenError(w)
    \/ \E w \in active : ReduceReadAll(w)
    \/ \E w \in active : ReduceReadError(w)
    \/ \E w \in active : ReduceGroup(w)
    \/ \E w \in active : ReduceCall(w)
    \/ \E w \in active : ReduceCommit(w)
    \/ \E w \in active : ReduceJoin(w)

Spec == Init /\ [][Next]_vars

\* a step of the goroutine running Worker in process w
WorkerStep(w) ==
    /\ w \in active
    /\ \/ HeartbeatDialError(w) \/ HeartbeatCallError(w) \/ HeartbeatOk(w)
       \/ ReportDialError(w) \/ ReportCallError(w) \/ ReportOk(w)
       \/ SwitchMap(w) \/ SwitchReduce(w) \/ SwitchWait(w)
       \/ SwitchComplete(w) \/ SwitchDefault(w)
       \/ MapOpenError(w) \/ MapReadError(w) \/ MapCall(w) \/ MapJoin(w)
       \/ ReduceOpenMissing(w) \/ ReduceOpenError(w) \/ ReduceReadAll(w)
       \/ ReduceReadError(w) \/ ReduceGroup(w) \/ ReduceCall(w)
       \/ ReduceCommit(w) \/ ReduceJoin(w)

\* a step of commit unit u of process w
UnitStep(w, u) ==
    /\ w \in active
    /\ \/ CreateTemp(w, u) \/ CreateTempError(w, u)
       \/ CopyLine(w, u) \/ CopyError(w, u)
       \/ Publish(w, u) \/ PublishError(w, u)

\* the Go scheduler lets every runnable goroutine run eventually
Fairness ==
    \A w \in AllWorkers :
        /\ WF_vars(WorkerStep(w))
        /\ \A u \in Parts : WF_vars(UnitStep(w, u))


----------------------------------------------------------------------------
(* Vocabulary of the properties *)

TargetPaths ==
    {generateMapResultFileName(i, p) : i \in 0..(MaxNMap - 1), p \in Parts}
    \cup {generateReduceResultFileName(p) : p \in Parts}

\* path is created, removed or given another content by the step
Changed(path) ==
    \/ (path \in DOMAIN files) # (path \in DOMAIN files')
    \/ /\ path \in DOMAIN files /\ path \in DOMAIN files'
       /\ files[path] # files'[path]

\* the step publishes the whole payload of a commit unit onto path
Published(path) ==
    \E w \in active, u \in Parts :
        /\ units[w][u].target = path
        /\ units[w][u].st = "copy" /\ units'[w][u].st = "done"
        /\ path \in DOMAIN files' /\ files'[path] = units[w][u].payload

\* the step sends a completion report of worker w
ReportSent(w) ==
    /\ Len(sent'[w]) = Len(sent[w]) + 1
    /\ sent'[w][Len(sent'[w])][1] = "Report"

\* the commit units the current task of worker w must complete
Required(w) ==
    IF response[w].JobType = "MapJob"
    THEN {u \in Parts : u < response[w].NReduce}
    ELSE {0}

Count(r, records) == Len(SelectSeq(records, LAMBDA x : x = r))

RECURSIVE Sum(_, _)
Sum(f, S) ==
    IF S = {} THEN 0
    ELSE LET x == CHOOSE y \in S : TRUE IN f[x] + Sum(f, S \ {x})

----------------------------------------------------------------------------
(* C1: every change of an Intermediate File path or Output File path is the *)
(* publish step of one commit and installs that commit's whole payload in   *)
(* one step, so the path is absent or holds a complete payload in every     *)
(* state, also while temporary files are half written or after a failed     *)
(* write; and a commit that succeeded leaves exactly its payload there.     *)
C1_AtomicCommit ==
    /\ [][\A path \in TargetPaths : Changed(path) => Published(path)]_vars
    /\ [](\A w \in active, u \in Parts :
            units[w][u].st = "done" =>
                /\ units[w][u].target \in DOMAIN files
                /\ files[units[w][u].target] = units[w][u].payload)

\* a commit is half way through its temporary file while the target still
\* holds the complete payload of an earlier commit
C1_Witness ==
    \E w \in active, u \in Parts :
        LET tmp == TempName(w, units[w][u].target)
        IN  /\ units[w][u].st = "copy"
            /\ Len(files[tmp]) > 0
            /\ Len(files[tmp]) < Len(units[w][u].payload)
            /\ units[w][u].target \in DOMAIN files
            /\ files[units[w][u].target] # units[w][u].payload
            /\ files[units[w][u].target] # <<>>

(* C2: a completion report is sent only after every file the task must     *)
(* produce has been committed.                                              *)
C2_ReportAfterCommit ==
    [][\A w \in active :
          ReportSent(w) =>
              \A u \in Required(w) :
                  /\ units[w][u].st = "done"
                  /\ units[w][u].target \in DOMAIN files
                  /\ files[units[w][u].target] = units[w][u].payload]_vars

(* C3: when a map task has committed its N Intermediate Files, every       *)
(* Record occurs in them together as often as the map callback emitted it,  *)
(* and only in the file whose index is iHash(key) % N.                      *)
C3_PartitionFiles ==
    \A w \in active :
        (/\ pc[w] = "report" /\ response[w].JobType = "MapJob"
         /\ \A u \in Required(w) : units[w][u].st = "done")
        =>
        LET n == response[w].NReduce
            stored == [p \in 0..(n - 1) |->
                         DecodeAll(files[generateMapResultFileName(response[w].Id, p)])]
        IN  \A r \in Records :
                /\ Sum([p \in 0..(n - 1) |-> Count(r, stored[p])], 0..(n - 1))
                     = Count(r, kva[w])
                /\ \A p \in 0..(n - 1) :
                       Count(r, stored[p]) > 0 => p = iHash(r.Key) % n
                /\ \A p \in 0..(n - 1) :
                       Len(stored[p]) =
                           Len(files[generateMapResultFileName(response[w].Id, p)])

\* a finished map task with two partitions whose two Records went to
\* different files
C3_Witness ==
    \E w \in active :
        /\ pc[w] = "report" /\ response[w].JobType = "MapJob"
        /\ response[w].NReduce = 2
        /\ \A u \in Required(w) : units[w][u].st = "done"
        /\ Len(kva[w]) = 2
        /\ files[generateMapResultFileName(response[w].Id, 0)] # <<>>
        /\ files[generateMapResultFileName(response[w].Id, 1)] # <<>>

(* C4: a reduce task that finds Intermediate File (i, p) missing does not  *)
(* fail.                                                                    *)
C4_MissingTolerated ==
    \A w \in active : "missing" \in events[w] => pc[w] # "dead"

(* C5: after a dial error or a call error the worker sends no further      *)
(* request, dispatches no executor and does not go on with its loop.        *)
C5_RpcErrorFatal ==
    [][\A w \in active :
          rpcErr[w] => (sent'[w] = sent[w] /\ pc'[w] \in {pc[w], "dead"})]_vars

(* C6: no durable-write failure of a task is followed by a completion      *)
(* report of that task.                                                     *)
C6_NoReportAfterWriteError ==
    [][\A w \in active : ReportSent(w) => "write_error" \notin events[w]]_vars

(* C7: after a read or decode error on an existing Intermediate File the   *)
(* reduce task commits no Output File and sends no completion report.       *)
C7_ReadErrorFatal ==
    [][\A w \in active :
          "read_error" \in events[w] =>
              /\ ~ReportSent(w)
              /\ ~Changed(generateReduceResultFileName(response[w].Id))]_vars

(* C8 as stated: answered Wait, Wait, Done the loop sleeps once and then   *)
(* terminates, with no executor run and no completion report sent.          *)
C8_SleepsOnce ==
    \A w \in active :
        (hist[w] = <<"WaitJob", "WaitJob", "CompleteJob">> /\ pc[w] = "exited")
        => /\ sleeps[w] = 1
           /\ sent[w] = <<<<"Heartbeat">>, <<"Heartbeat">>, <<"Heartbeat">>>>
           /\ units[w] = NoUnits /\ files = <<>>

(* C8 amended: answered Wait, Wait, Done the loop sleeps twice, once per   *)
(* Wait, and then terminates, with no executor run and no completion        *)
(* report sent.                                                             *)
C8_SleepsPerWait ==
    \A w \in active :
        (hist[w] = <<"WaitJob", "WaitJob", "CompleteJob">> /\ pc[w] = "exited")
        => /\ sleeps[w] = 2
           /\ sent[w] = <<<<"Heartbeat">>, <<"Heartbeat">>, <<"Heartbeat">>>>
           /\ units[w] = NoUnits /\ files = <<>>

C8_Witness ==
    \E w \in active :
        hist[w] = <<"WaitJob", "WaitJob", "CompleteJob">> /\ pc[w] = "exited"

\* the Records of Intermediate Files (0..m-1, id), in ascending map id
RECURSIVE StoredRecords(_, _, _)
StoredRecords(fs, id, m) ==
    IF m = 0 THEN <<>>
    ELSE StoredRecords(fs, id, m - 1)
            \o DecodeAll(fs[generateMapResultFileName(m - 1, id)])

(* C9: the keys on the lines of a committed Output File are the distinct   *)
(* keys of the M Intermediate Files of its partition, each on exactly one   *)
(* line, and the line of a key is the key, a space and the reduce           *)
(* callback's result for the key.                                           *)
C9_OutputKeys ==
    \A w \in active :
        (/\ pc[w] = "report" /\ response[w].JobType = "ReduceJob"
         /\ units[w][0].st = "done")
        =>
        LET out == files[generateReduceResultFileName(response[w].Id)]
            stored == StoredRecords(files, response[w].Id, response[w].NMap)
            keys == {stored[j].Key : j \in 1..Len(stored)}
        IN  /\ {out[j][1] : j \in 1..Len(out)} = keys
            /\ \A j, k \in 1..Len(out) : out[j][1] = out[k][1] => j = k
            /\ \A j \in 1..Len(out) :
                   LET mine == SelectSeq(stored, LAMBDA kv : kv.Key = out[j][1])
                   IN  out[j] = <<out[j][1], " ",
                                  reduceF(out[j][1],
                                          [i \in 1..Len(mine) |-> mine[i].Value])>>

(* C10: a map task whose input file cannot be opened or read aborts the    *)
(* worker before the map callback runs and before any commit unit starts;   *)
(* nothing is sent after the heartbeat that brought the task.               *)
C10_InputErrorAborts ==
    \A w \in active :
        "input_error" \in events[w]
        => /\ pc[w] = "dead"
           /\ "mapF" \notin events[w]
           /\ units[w] = NoUnits
           /\ \A u \in Parts :
                  TempName(w, generateMapResultFileName(response[w].Id, u))
                      \notin DOMAIN files
           /\ sent[w][Len(sent[w])] = <<"Heartbeat">>

\* the input of a map task the coordinator handed out failed to open or read
C10_Witness ==
    \E w \in active :
        /\ "input_error" \in events[w]
        /\ response[w].JobType = "MapJob" /\ response[w].FilePath # ""
        /\ files # <<>>

\* the directory after map tasks 0..m-1 of a job with n partitions committed
\* their Intermediate Files, task i having emitted out[i]
MapPhaseFiles(out, m, n) ==
    [path \in {generateMapResultFileName(i, index) :
                   i \in 0..(m - 1), index \in 0..(n - 1)} |->
        LET i == CHOOSE i \in 0..(m - 1) :
                     \E index \in 0..(n - 1) :
                         path = generateMapResultFileName(i, index)
            index == CHOOSE index \in 0..(n - 1) :
                         path = generateMapResultFileName(i, index)
        IN  EncodeBucket(Intermediates(out[i], n)[index])]

\* one worker, started when other workers have committed map tasks 0..m-1 of
\* the job; it sends one heartbeat and is handed at most one task
InitLate ==
    /\ Started({1})
    /\ job \in [NMap : {MaxNMap}, NReduce : 1..MaxNReduce, tasks : {ScenarioTasks},
                beats : {ScenarioBeats}]
    /\ \E m \in 1..job.NMap, out \in [0..(MaxNMap - 1) -> MapOutputs] :
           files = MapPhaseFiles(out, m, job.NReduce)

SpecLate == InitLate /\ [][Next]_vars

\* two workers on an empty directory, each sending one heartbeat and handed
\* at most one task of a job with one map task: the coordinator may hand the
\* map task to both
InitTwo ==
    /\ Started({1, 2})
    /\ job \in [NMap : {1}, NReduce : 1..MaxNReduce, tasks : {ScenarioTasks},
                beats : {ScenarioBeats}]
    /\ files = <<>>

SpecTwo == InitTwo /\ [][Next]_vars

\* one worker of a job with one map task, started on an empty directory or
\* after the map task committed; it sends two heartbeats and is handed at
\* most one task
InitLive ==
    /\ Started({1})
    /\ job \in [NMap : {1}, NReduce : 1..MaxNReduce, tasks : {ScenarioTasks},
                beats : {LiveBeats}]
    /\ \E m \in 0..job.NMap, out \in [0..(job.NMap - 1) -> MapOutputs] :
           files = MapPhaseFiles(out, m, job.NReduce)

SpecLive == InitLive /\ [][Next]_vars /\ Fairness

(* C11: the partition index iHash(key) % N of every Record a map task      *)
(* routes lies in [0, N), the hash being a non-negative 31-bit value, the   *)
(* Record is put into the bucket of that index, and every Record a reduce   *)
(* task of partition p later reads from the files of p has index p again.   *)
C11_PartitionInRange ==
    \A w \in active :
        /\ pc[w] = "map_wait" =>
              \A j \in 1..Len(kva[w]) :
                  LET p == GoRem(iHash(kva[w][j].Key), response[w].NReduce)
                  IN  /\ iHash(kva[w][j].Key) \in 0..2147483647
                      /\ p \in 0..(response[w].NReduce - 1)
                      /\ \E i \in 1..Len(units[w][p].payload) :
                             units[w][p].payload[i] = EncodeKV(kva[w][j])
        /\ (pc[w] = "red_range" /\ response[w].NReduce >= 1) =>
              \A j \in 1..Len(kva[w]) :
                  GoRem(iHash(kva[w][j].Key), response[w].NReduce) = response[w].Id

\* a reduce task of partition 1 of 2 has read Records a map task routed there
C11_Witness ==
    \E w \in active :
        /\ pc[w] = "red_range" /\ response[w].NReduce = 2 /\ response[w].Id = 1
        /\ kva[w] # <<>>

(* C12: a heartbeat response whose JobType is none of the four makes the   *)
(* worker panic: from the switch it only dies, with no commit unit started  *)
(* and nothing sent after the heartbeat.                                    *)
C12_UnknownPhaseFatal ==
    \A w \in active :
        response[w].JobType \notin JobTypes
        => /\ pc[w] \in {"switch", "dead"}
           /\ units[w] = NoUnits
           /\ sent[w][Len(sent[w])] = <<"Heartbeat">>

C12_Witness ==
    \E w \in active :
        /\ response[w].JobType = "OtherJob" /\ pc[w] = "dead"
        /\ Len(Tasks(hist[w])) > 0

(* C13: once a heartbeat returned CompleteJob the worker only leaves its   *)
(* loop: it is at the switch or has returned, and the heartbeat that        *)
(* brought CompleteJob is the last request it sent, whatever preceded it.   *)
C13_DoneTerminates ==
    \A w \in active :
        /\ response[w].JobType = "CompleteJob"
              => /\ pc[w] \in {"switch", "exited"}
                 /\ sent[w][Len(sent[w])] = <<"Heartbeat">>
        /\ pc[w] = "exited" => response[w].JobType = "CompleteJob"

\* the worker returned on CompleteJob after it had run a task
C13_Witness ==
    \E w \in active :
        /\ pc[w] = "exited"
        /\ Len(Tasks(hist[w])) > 0
        /\ hist[w][Len(hist[w])] = "CompleteJob"

(* C14: the value sequence the reduce callback gets for a key is the       *)
(* concatenation, in ascending map task id, of the key's values in the      *)
(* order they stand in each Intermediate File of the partition: no value    *)
(* is reordered, dropped or duplicated.                                     *)
C14_ValueOrder ==
    \A w \in active :
        (pc[w] = "red_range" /\ response[w].JobType = "ReduceJob")
        =>
        LET stored == StoredRecords(files, response[w].Id, response[w].NMap)
        IN  /\ DOMAIN results[w] = {stored[j].Key : j \in 1..Len(stored)}
            /\ \A key \in DOMAIN results[w] :
                   LET mine == SelectSeq(stored, LAMBDA kv : kv.Key = key)
                   IN  results[w][key] = [j \in 1..Len(mine) |-> mine[j].Value]

(* C15: when the reduce callback is invoked, each of the M Intermediate    *)
(* Files of the partition has been opened, read to its end and closed.      *)
C15_ReadBeforeReduce ==
    [][\A w \in active :
          (pc[w] = "red_range" /\ buf'[w] # buf[w])
          => /\ ri[w] = response[w].NMap
             /\ Len(kva[w]) =
                   Len(StoredRecords(files, response[w].Id, response[w].NMap))]_vars

(* C16: when a map task is reported, each of the N partition indices has   *)
(* its Intermediate File committed by the task, holding the Records of its  *)
(* bucket, an empty file for an empty bucket.                               *)
C16_AllPartitionsCommitted ==
    [][\A w \in active :
          (ReportSent(w) /\ response[w].JobType = "MapJob")
          => \A index \in 0..(response[w].NReduce - 1) :
                 LET path == generateMapResultFileName(response[w].Id, index)
                 IN  /\ path \in DOMAIN files
                     /\ DecodeAll(files[path])
                           = Intermediates(kva[w], response[w].NReduce)[index]]_vars

\* the number of heartbeats among the first i requests of worker w
BeatsUpTo(w, i) ==
    Len(SelectSeq(SubSeq(sent[w], 1, i), LAMBDA req : req[1] = "Heartbeat"))

(* C17: a completion report is sent only by the executor of the Map or     *)
(* Reduce response in hand, with that response's task id and the phase of   *)
(* the task, directly after the heartbeat that brought the response; an     *)
(* executor returns to the loop only by sending it; the request after a     *)
(* heartbeat answered with a task is that one report, and after a heartbeat *)
(* answered Wait or Done no report follows.                                 *)
C17_OneReportPerTask ==
    /\ [][\A w \in active :
             /\ ReportSent(w) =>
                   /\ pc[w] = "report"
                   /\ sent[w][Len(sent[w])] = <<"Heartbeat">>
                   /\ \/ /\ response[w].JobType = "MapJob"
                         /\ sent'[w] = Append(sent[w],
                                              <<"Report", response[w].Id, "MapPhase">>)
                      \/ /\ response[w].JobType = "ReduceJob"
                         /\ sent'[w] = Append(sent[w],
                                              <<"Report", response[w].Id, "ReducePhase">>)
             /\ (pc[w] \notin {"poll", "switch"} /\ pc'[w] = "poll") => ReportSent(w)
             /\ (pc[w] = "switch" /\ response[w].JobType \in {"WaitJob", "CompleteJob"})
                   => sent'[w] = sent[w]]_vars
    /\ [](\A w \in active :
             \A i \in 1..(Len(sent[w]) - 1) :
                 LET answer == hist[w][BeatsUpTo(w, i)]
                 IN  /\ sent[w][i][1] = "Report" => sent[w][i + 1] = <<"Heartbeat">>
                     /\ (sent[w][i] = <<"Heartbeat">> /\ answer = "MapJob")
                           => (sent[w][i + 1][1] = "Report"
                               /\ sent[w][i + 1][3] = "MapPhase")
                     /\ (sent[w][i] = <<"Heartbeat">> /\ answer = "ReduceJob")
                           => (sent[w][i + 1][1] = "Report"
                               /\ sent[w][i + 1][3] = "ReducePhase")
                     /\ (sent[w][i] = <<"Heartbeat">> /\ answer = "WaitJob")
                           => sent[w][i + 1] = <<"Heartbeat">>
                     /\ sent[w][i] = <<"Heartbeat">> => answer # "CompleteJob")

\* a map task and then a reduce task have each been reported once
C17_Witness ==
    \E w \in active :
        /\ Len(sent[w]) = 4 /\ pc[w] = "poll"
        /\ hist[w] = <<"MapJob", "ReduceJob">>
        /\ sent[w][2][3] = "MapPhase" /\ sent[w][4][3] = "ReducePhase"

(* C18: the commit units of one map task have pairwise different targets   *)
(* and temporaries, each carries the Records of its own bucket, a step of   *)
(* one unit leaves the other units, their targets and their temporaries     *)
(* untouched, and a unit that is done has left exactly its own payload in   *)
(* its own file, whatever the other units did in between.                   *)
C18_UnitsIndependent ==
    /\ [](\A w \in active :
             pc[w] = "map_wait" =>
                 \A u \in Required(w) :
                     /\ units[w][u].target
                           = generateMapResultFileName(response[w].Id, u)
                     /\ units[w][u].payload
                           = EncodeBucket(Intermediates(kva[w], response[w].NReduce)[u])
                     /\ \A v \in Required(w) \ {u} :
                            units[w][v].target # units[w][u].target
                     /\ units[w][u].st = "done" =>
                            /\ units[w][u].target \in DOMAIN files
                            /\ files[units[w][u].target] = units[w][u].payload)
    /\ [][\A w \in active :
             pc[w] = "map_wait" =>
                 \A u \in Required(w) :
                     units'[w][u] # units[w][u] =>
                         /\ units'[w][u].payload = units[w][u].payload
                         /\ units'[w][u].target = units[w][u].target
                         /\ \A v \in Required(w) \ {u} :
                                /\ units'[w][v] = units[w][v]
                                /\ ~Changed(units[w][v].target)
                                /\ ~Changed(TempName(w, units[w][v].target))]_vars

\* both units of a map task with two partitions are done, each file holding
\* the Records of its own bucket
C18_Witness ==
    \E w \in active :
        /\ pc[w] = "map_wait" /\ response[w].NReduce = 2
        /\ units[w][0].st = "done" /\ units[w][1].st = "done"
        /\ files[units[w][0].target] # <<>> /\ files[units[w][1].target] # <<>>
        /\ files[units[w][0].target] # files[units[w][1].target]

\* worker w is inside the map task id, between mapF and its report
Attempting(w, id) ==
    /\ pc[w] \in {"map_wait", "report"}
    /\ response[w].JobType = "MapJob" /\ response[w].Id = id

\* what the attempt of worker w commits for partition index
AttemptPayload(w, index) ==
    EncodeBucket(Intermediates(kva[w], response[w].NReduce)[index])

(* C19: when two workers run the same map task at the same time, every     *)
(* step that makes an Intermediate File of the task visible or replaces it  *)
(* installs the whole payload of the attempt of one worker; what an         *)
(* attempt has written so far stands in its own temporary file, a prefix    *)
(* of its own payload with no line of the other attempt in it.              *)
C19_OneAttemptVisible ==
    /\ [][\A id \in 0..(job.NMap - 1), index \in 0..(job.NReduce - 1) :
             LET path == generateMapResultFileName(id, index)
             IN  Changed(path) =>
                     /\ path \in DOMAIN files'
                     /\ \E w \in active :
                            /\ Attempting(w, id) /\ pc[w] = "map_wait"
                            /\ files'[path] = AttemptPayload(w, index)]_vars
    /\ [](\A w \in active, index \in 0..(job.NReduce - 1) :
             (pc[w] = "map_wait" /\ units[w][index].st = "copy")
             => LET tmp == files[TempName(w, units[w][index].target)]
                IN  /\ Len(tmp) <= Len(AttemptPayload(w, index))
                    /\ tmp = SubSeq(AttemptPayload(w, index), 1, Len(tmp)))

\* both workers are in map task 0; worker 1 has published mr-0-0 while
\* worker 2, whose payload is another one, has half of it in its temporary
C19_Witness ==
    /\ active = {1, 2} /\ pc[1] = "map_wait" /\ pc[2] = "map_wait"
    /\ response[1].Id = 0 /\ response[2].Id = 0
    /\ units[1][0].st = "done" /\ units[2][0].st = "copy"
    /\ Len(units[1][0].payload) = 2 /\ Len(units[2][0].payload) = 2
    /\ units[1][0].payload # units[2][0].payload
    /\ Len(files[TempName(2, units[2][0].target)]) = 1
    /\ files[units[1][0].target] = units[1][0].payload

\* no coordinator call and no file operation of worker w has failed
AllSucceed(w) ==
    /\ ~rpcErr[w]
    /\ events[w] \cap {"missing", "open_error", "read_error", "write_error",
                       "input_error"} = {}

(* C20: under weak fairness of the worker and of its commit units, a       *)
(* worker whose calls and file operations all succeed handles every         *)
(* response to the end, so it terminates once a heartbeat is answered Done; *)
(* and the join of a map task always returns, each commit unit ending once  *)
(* and staying ended, also when its write failed.                           *)
C20_Terminates ==
    /\ \A w \in AllWorkers :
           [](AllSucceed(w) /\ response[w].JobType # "OtherJob")
           => /\ (pc[w] = "switch") ~> (pc[w] \in {"poll", "exited"})
              /\ <>(response[w].JobType = "CompleteJob") => <>(pc[w] = "exited")
    /\ \A w \in AllWorkers : (pc[w] = "map_wait") ~> (pc[w] = "report")
    /\ [][\A w \in active, u \in Parts :
             (pc[w] = "map_wait" /\ units[w][u].st \in {"done", "failed"})
             => units'[w][u] = units[w][u]]_vars

\* the worker has returned after a reduce task without any failure, the
\* Output File committed
C20_Witness ==
    \E w \in active :
        /\ pc[w] = "exited" /\ ~rpcErr[w]
        /\ hist[w] = <<"ReduceJob", "CompleteJob">>
        /\ generateReduceResultFileName(0) \in DOMAIN files

====
